---- MODULE Spec2Model ----
(***************************************************************************)
(* Model of the africa-payments-mcp Python SDK client                      *)
(* (sdks/python/africa_payments_mcp): the request pipeline _request with   *)
(* its retry loop, the error taxonomy of exceptions.py, and the facade     *)
(* operations get_transaction, verify_payment, poll_transaction_status     *)
(* and health_check.  One behaviour is one client running operations; a    *)
(* step is the code that runs between two awaits.                          *)
(***************************************************************************)
EXTENDS Integers, Sequences, FiniteSets, TLC

(* ------------------------------ bounds --------------------------------- *)
MaxRetries == 3        \* config.max_retries ranges over 0..MaxRetries
MaxStart == 1          \* the clock reads 0..MaxStart when the poll is called
MaxPollRetries == 1    \* polls are run by clients with max_retries <= MaxPollRetries
MaxTimeout == 2        \* poll timeout ranges over 0..MaxTimeout
MaxInterval == 1       \* poll interval ranges over 0..MaxInterval
MaxCount == 2          \* history counters saturate at MaxCount

MaxBatch == 2          \* payments added to one batch
MaxBatchRetries == 1   \* max_retries of a client that runs a batch
MaxHandles == 2        \* connection handles one client creates
MaxCloses == 2         \* close() calls, __aexit__ included
MaxRegistered == 3     \* registered webhook handlers
MaxSignature == 3      \* characters of a signature string
DigestLen == 2         \* hex digits of a digest
MaxConfigTimeout == 1  \* timeout given to PaymentConfig
MaxOffset == 5
MaxExecutions == 2
MaxAmount == 2
MaxPhoneRun == 15         \* offset of a TransactionQuery
MaxNow == MaxStart + MaxTimeout   \* free-running clock ticks stop here

(* ------------------------------ values --------------------------------- *)
None == "None"
ABSENT == "ABSENT"     \* key missing from a JSON object
EMPTY == "{}"          \* the empty dict

Messages == {"m1"}
Codes == {"c1"}
Details == {"d1"}

\* models.py PaymentStatus
PENDING == "pending"
SUCCESS == "success"
FAILED == "failed"
CANCELLED == "cancelled"
PaymentStatus == {PENDING, SUCCESS, FAILED, CANCELLED}

OkStatuses == {200, 302}
ErrStatuses == {400, 401, 403, 404, 409, 429, 500, 503}

\* A response body: raw text that is not JSON, a JSON value that is not an
\* object, or a JSON object with some of the keys the SDK reads.
Body(form, text, message, code, details, status) ==
    [form |-> form, text |-> text, message |-> message, code |-> code,
     details |-> details, status |-> status]

NonJsonBody == Body("nonjson", "raw", ABSENT, ABSENT, ABSENT, ABSENT)
ArrayBody == Body("array", "", ABSENT, ABSENT, ABSENT, ABSENT)

ErrorBodies ==
    {NonJsonBody, ArrayBody} \cup
    {Body("object", "", m, c, d, ABSENT) :
        m \in Messages \cup {ABSENT}, c \in Codes \cup {ABSENT},
        d \in Details \cup {ABSENT}}

SuccessBodies ==
    {NonJsonBody, ArrayBody} \cup
    {Body("object", "", ABSENT, ABSENT, ABSENT, s) :
        s \in PaymentStatus \cup {ABSENT}}

\* What one await of client.request can produce.
Outcome(t, status, body) == [t |-> t, status |-> status, body |-> body]
NoOutcome == Outcome("none", 0, ArrayBody)
Outcomes ==
    {Outcome(t, 0, ArrayBody) : t \in {"timeout", "network", "error"}} \cup
    {Outcome("response", s, b) : s \in ErrStatuses, b \in ErrorBodies} \cup
    {Outcome("response", s, b) : s \in OkStatuses, b \in SuccessBodies}

(* ---------------------------- exceptions.py ---------------------------- *)
Exc(kind, message, code, details) ==
    [kind |-> kind, message |-> message, code |-> code, details |-> details]

NoError == Exc("None", "", None, EMPTY)

\* Exceptions that are not part of the SDK's hierarchy.
TypeError == Exc("TypeError", "multiple values for keyword argument 'code'", None, EMPTY)
AttributeError == Exc("AttributeError", "object has no attribute 'get'", None, EMPTY)
JSONDecodeError == Exc("JSONDecodeError", "Expecting value", None, EMPTY)
TransportError == Exc("TransportError", "transport", None, EMPTY)
PydanticValidationError == Exc("PydanticValidationError", "validation", None, EMPTY)

SdkKinds == {"AfricaPaymentsError", "AuthenticationError", "PaymentError",
             "ValidationError", "NotFoundError", "ServerError",
             "RateLimitError", "TimeoutError"}

IsAfricaPaymentsError(e) == e.kind \in SdkKinds

\* keyword arguments: a function from the names passed to their values
NoKwargs == <<>>
Kwargs(code, details) == [k \in {"code", "details"} |->
                            IF k = "code" THEN code ELSE details]

\* AfricaPaymentsError.__init__: details or {}
BaseInit(kind, message, code, details) ==
    Exc(kind, message, code, IF details = None THEN EMPTY ELSE details)

AfricaPaymentsError(message, code, details) ==
    BaseInit("AfricaPaymentsError", message, code, details)

\* Subclass.__init__(message, **kwargs): super().__init__(message, code=X, **kwargs)
SubclassInit(kind, fixed_code, message, kwargs) ==
    IF "code" \in DOMAIN kwargs
    THEN TypeError
    ELSE BaseInit(kind, message, fixed_code,
                  IF "details" \in DOMAIN kwargs THEN kwargs["details"] ELSE None)

AuthenticationError(message, kwargs) ==
    SubclassInit("AuthenticationError", "AUTH_ERROR", message, kwargs)
PaymentError(message, kwargs) ==
    SubclassInit("PaymentError", "PAYMENT_ERROR", message, kwargs)
ValidationError(message, kwargs) ==
    SubclassInit("ValidationError", "VALIDATION_ERROR", message, kwargs)
NotFoundError(message, kwargs) ==
    SubclassInit("NotFoundError", "NOT_FOUND", message, kwargs)
ServerError(message, kwargs) ==
    SubclassInit("ServerError", "SERVER_ERROR", message, kwargs)
RateLimitError(message, kwargs) ==
    SubclassInit("RateLimitError", "RATE_LIMIT", message, kwargs)
TimeoutError(message, kwargs) ==
    SubclassInit("TimeoutError", "TIMEOUT", message, kwargs)

\* dict.get(key, default)
Get(d, key, default) == IF d[key] = ABSENT THEN default ELSE d[key]

\* raise_for_status: the exception that leaves the call (status_code >= 400)
raise_for_status(status_code, response_data) ==
    IF response_data.form # "object"
    THEN AttributeError
    ELSE LET message == Get(response_data, "message", "Unknown error")
             code == Get(response_data, "code", None)
             details == Get(response_data, "details", EMPTY)
         IN  CASE status_code = 400 -> ValidationError(message, Kwargs(code, details))
               [] status_code = 401 -> AuthenticationError(message, Kwargs(code, details))
               [] status_code = 404 -> NotFoundError(message, Kwargs(code, details))
               [] status_code = 409 -> PaymentError(message, Kwargs(code, details))
               [] status_code = 429 -> RateLimitError(message, Kwargs(code, details))
               [] status_code >= 500 -> ServerError(message, Kwargs(code, details))
               [] OTHER -> AfricaPaymentsError(message, code, details)


(* ------------------------------- state --------------------------------- *)
VARIABLES
    max_retries,     \* config.max_retries (validated: >= 0)
    _client,         \* self._client: None or the open connection handle
    op,              \* the facade operation being run
    pc,              \* where the running operation is suspended
    attempt,         \* _request: loop variable
    last_error,      \* _request: last_error
    attempts,        \* history: class of every attempt of the current _request
    sleeps,          \* history: backoff delays slept in the current _request
    last_outcome,    \* history: what the attempt just made produced
    op_result,       \* what the facade operation gave its caller
    now,             \* the event loop's clock
    start_time,      \* poll_transaction_status: start_time
    interval,        \* poll_transaction_status: interval
    timeout,         \* poll_transaction_status: timeout
    fetches,         \* history: completed get_transaction calls of the poll
    callback,        \* poll_transaction_status: a callback was passed
    callback_calls,  \* history: invocations of the callback
    callback_arg,    \* history: status of the transaction last passed to it
    created,         \* history: connection handles created by _get_client
    api_key,         \* config.api_key
    config_timeout,  \* config.timeout
    construction,    \* PaymentConfig(...): "pending", "accepted", "rejected"
    config_args,     \* the arguments PaymentConfig was called with
    _operations,     \* BatchOperations._operations
    tasks,           \* execute: the sub-operations handed to asyncio.gather
    batch_pc,        \* "none", "collecting", "gathering", "done"
    batch_result,    \* what execute returned
    executions,      \* history: how many times execute was called on this batch
    scope,           \* async with client: "outside", "inside"
    close_pc,        \* close(): "idle", or who awaits aclose()
    aclosed,         \* history: handles closed by aclose()
    closes,          \* history: completed close() calls
    _event_handlers, \* the registered webhook handlers, in order
    delivery,        \* handle_webhook: position, handlers invoked, result
    last_op,         \* history: the last add/remove_event_handler call
    signature_call,  \* verify_webhook_signature: its arguments
    signature_result,\* verify_webhook_signature: how it ended
    query,           \* get_transaction_history: its query argument
    sent_params,     \* get_transaction_history: the params given to _request
    sent,            \* history: what each attempt of this _request call sent
    refund_request,  \* RefundRequest(...): the object, or the error raised
    phone_number,    \* the phone string given to PaymentRequest(...)
    payment_request, \* PaymentRequest(...): the stored phone, or the error
    web_request,     \* the HTTP request a framework view is given, in <<...>>
    web_response     \* what the view did with it, in <<...>>

\* the request pipeline and the facade operations built on it
core == <<max_retries, _client, op, pc, attempt, last_error, attempts, sleeps,
          last_outcome, op_result, now, start_time, interval, timeout,
          fetches, callback, callback_calls, callback_arg, created, sent>>

\* one _request call and the facade operation that made it
request_state == <<op, pc, attempt, last_error, attempts, sleeps, last_outcome,
                   op_result, now, start_time, interval, timeout, fetches,
                   callback, callback_calls, callback_arg, sent>>

\* poll_transaction_status: what the callback has seen
poll_callback == <<callback, callback_calls, callback_arg>>

\* state of the other parts of the client, untouched by the pipeline
config == <<api_key, config_timeout, construction, config_args>>

batch_state == <<_operations, tasks, batch_pc, batch_result, executions>>

lifecycle == <<scope, close_pc, aclosed, closes>>

webhooks == <<_event_handlers, delivery, last_op>>

framework == <<web_request, web_response>>
other_calls == <<refund_request, phone_number, payment_request, framework>>
pure_calls == <<signature_call, signature_result, query, sent_params, other_calls>>

ext == <<config, batch_state, lifecycle, webhooks, pure_calls>>

vars == <<core, ext>>

Res(tag, value) == [tag |-> tag, value |-> value]
Return(value) == Res("return", value)
Raise(exc) == Res("raise", exc)
NoResult == Res("none", None)

Inc(n) == IF n < MaxCount THEN n + 1 ELSE n

(* ------------------------------ client.py ------------------------------ *)
\* _get_client: create the handle only when there is none
creates_always(handle) == TRUE

creates(handle) == handle = None

_get_client(handle) == IF creates(handle) THEN "open" ELSE handle

\* httpx exceptions raised by client.request
HttpxTimeoutException == Exc("httpx.TimeoutException", "timed out", None, EMPTY)
HttpxNetworkError == Exc("httpx.NetworkError", "connection failed", None, EMPTY)

\* response.json(), falling back to the raw text (client.py 164-167)
error_data(body) ==
    IF body.form = "nonjson"
    THEN Body("object", "", body.text, ABSENT, ABSENT, ABSENT)
    ELSE body

\* the body of the try statement of one attempt (client.py 156-170)
try_body(outcome) ==
    CASE outcome.t = "timeout" -> Raise(HttpxTimeoutException)
      [] outcome.t = "network" -> Raise(HttpxNetworkError)
      [] outcome.t = "error" -> Raise(TransportError)
      [] OTHER ->
           IF outcome.status >= 400
           THEN Raise(raise_for_status(outcome.status, error_data(outcome.body)))
           ELSE IF outcome.body.form = "nonjson"
                THEN Raise(JSONDecodeError)
                ELSE Return(outcome.body)

\* the except clauses of one attempt (client.py 172-179): the attempt
\* returns, raises to the caller, or records last_error and falls through
except_clauses(r) ==
    IF r.tag = "return" THEN r
    ELSE CASE r.value.kind = "httpx.TimeoutException" ->
                Res("record", TimeoutError("Request timed out", NoKwargs))
           [] r.value.kind = "httpx.NetworkError" ->
                Res("record", AfricaPaymentsError("Network error", None, None))
           [] IsAfricaPaymentsError(r.value) -> r
           [] OTHER ->
                Res("record", AfricaPaymentsError("Request failed", None, None))

\* last_error = ... in an except clause (client.py 173, 175, 179)
record_first_error(previous, error) ==
    IF previous = NoError THEN error ELSE previous

record_error(previous, error) == error

\* wait_time = 2 ** attempt (client.py 182)
wait_time_linear(a) == a + 1

wait_time(a) == 2 ^ a

\* raise last_error or AfricaPaymentsError(...) (client.py 185)
after_loop_generic(le) ==
    Raise(AfricaPaymentsError("Request failed after retries", None, None))

after_loop(le) ==
    IF le = NoError
    THEN Raise(AfricaPaymentsError("Request failed after retries", None, None))
    ELSE Raise(le)

\* models.py PaymentResponse
PaymentResponse(status) == [status |-> status]
is_success(t) == t.status = SUCCESS
is_pending(t) == t.status = PENDING
is_failed_or_cancelled(t) == t.status \in {FAILED, CANCELLED}

is_failed(t) == t.status = FAILED

\* PaymentResponse.model_validate(data)
model_validate(data) ==
    IF data.form = "object" /\ data.status \in PaymentStatus
    THEN Return(PaymentResponse(data.status))
    ELSE Raise(PydanticValidationError)

\* TransactionHistory.model_validate(data) (client.py 237): none of the
\* bodies above carries the required keys transactions, total and hasMore
get_history_result(reqres) ==
    IF reqres.tag = "raise" THEN reqres ELSE Raise(PydanticValidationError)

\* get_transaction, given how its _request call ended (client.py 221-222)
get_transaction_pending_on_error(reqres) ==
    IF reqres.tag = "raise" THEN Return(PaymentResponse(PENDING))
    ELSE model_validate(reqres.value)

get_transaction(reqres) ==
    IF reqres.tag = "raise" THEN reqres ELSE model_validate(reqres.value)

\* verify_payment, given how its _request call ended (client.py 264-268)
verify_payment_sdk_errors_only(reqres) ==
    LET r == get_transaction(reqres)
    IN  IF r.tag = "return" THEN Return(is_success(r.value))
        ELSE IF IsAfricaPaymentsError(r.value) THEN Return(FALSE)
        ELSE r

verify_payment(reqres) ==
    LET r == get_transaction(reqres)
    IN  IF r.tag = "return" THEN Return(is_success(r.value)) ELSE Return(FALSE)

\* elapsed >= timeout (client.py 305)
timed_out_strict(elapsed, limit) == elapsed > limit

timed_out(elapsed, limit) == elapsed >= limit

\* if callback: callback(transaction), right after the fetch returned
\* (client.py 298-299)
callback_after_status_test(r, cb) ==
    cb /\ r.tag = "return" /\ r.value.status = PENDING

callback_invoked(r, cb) == cb /\ r.tag = "return"

\* one iteration of the poll loop after its fetch (client.py 296-308)
poll_iteration_timeout_first(reqres, clock, start, limit) ==
    LET r == get_transaction(reqres)
    IN  IF r.tag = "raise" THEN r
        ELSE IF timed_out(clock - start, limit)
             THEN Raise(TimeoutError("Polling timed out", NoKwargs))
        ELSE IF r.value.status # PENDING THEN r
        ELSE Res("sleep", None)

poll_iteration(reqres, clock, start, limit) ==
    LET r == get_transaction(reqres)
    IN  IF r.tag = "raise" THEN r
        ELSE IF r.value.status # PENDING THEN r
        ELSE IF timed_out(clock - start, limit)
             THEN Raise(TimeoutError("Polling timed out", NoKwargs))
             ELSE Res("sleep", None)

AttemptClass(outcome) == outcome.t

\* initiate_payment, given how its _request call ended (client.py 206-207)
initiate_payment(reqres) ==
    IF reqres.tag = "raise" THEN reqres ELSE model_validate(reqres.value)

\* a coroutine of execute's task list before it first runs
NewTask(request) ==
    [req |-> request, pc |-> "created", attempt |-> 0, last_error |-> NoError,
     handle |-> 0, outcome |-> NoOutcome, result |-> NoResult]

\* asyncio.gather(*tasks, return_exceptions=True): one entry per task, in
\* the order of the tasks, an exception being an entry like any other
gather_raise_first(results) ==
    IF \E i \in DOMAIN results : results[i].tag = "raise"
    THEN Raise((results[CHOOSE i \in DOMAIN results :
                    /\ results[i].tag = "raise"
                    /\ \A j \in 1..(i - 1) : results[j].tag # "raise"]).value)
    ELSE Return(results)

gather(results) == Return(results)

\* async def __aexit__(self, *args): await self.close(), whatever args is
aexit_closes_on_return(cause) == cause = "return"

aexit_closes(cause) == TRUE

\* if self._client: (client.py 126)
close_awaits(handle) == handle # None

\* models.py TransactionQuery and RefundRequest
TransactionQuery(tid, ref, start, end, status, limit, offset) ==
    [transaction_id |-> tid, reference |-> ref, start_date |-> start,
     end_date |-> end, status |-> status, limit |-> limit, offset |-> offset]

Queries ==
    {TransactionQuery(t, r, s, e, st, l, o) :
        t \in {None, "", "tx1"}, r \in {None, "", "ref1"},
        s \in {None, "day1"}, e \in {None, "day2"},
        st \in {None, FAILED}, l \in {1, 20}, o \in {0, MaxOffset}}

\* the truth value Python gives a field in `if self.field:`
truthy(v) == v \notin {None, ""}

\* datetime.isoformat()
isoformat(d) == IF d = "day1" THEN "2024-01-01T00:00:00" ELSE "2024-01-02T00:00:00"

Params(limit, offset, transactionId, reference, startDate, endDate, status) ==
    [limit |-> limit, offset |-> offset, transactionId |-> transactionId,
     reference |-> reference, startDate |-> startDate, endDate |-> endDate,
     status |-> status]

\* TransactionQuery.to_api_params; ABSENT marks a key the dict does not have
to_api_params_not_none(q) ==
    Params(q.limit,
           q.offset,
           IF q.transaction_id # None THEN q.transaction_id ELSE ABSENT,
           IF q.reference # None THEN q.reference ELSE ABSENT,
           IF truthy(q.start_date) THEN isoformat(q.start_date) ELSE ABSENT,
           IF truthy(q.end_date) THEN isoformat(q.end_date) ELSE ABSENT,
           IF truthy(q.status) THEN q.status ELSE ABSENT)

to_api_params(q) ==
    Params(q.limit,
           q.offset,
           IF truthy(q.transaction_id) THEN q.transaction_id ELSE ABSENT,
           IF truthy(q.reference) THEN q.reference ELSE ABSENT,
           IF truthy(q.start_date) THEN isoformat(q.start_date) ELSE ABSENT,
           IF truthy(q.end_date) THEN isoformat(q.end_date) ELSE ABSENT,
           IF truthy(q.status) THEN q.status ELSE ABSENT)

\* params = query.to_api_params() if query else {"limit": 20, "offset": 0}
history_params(optional_query) ==
    IF optional_query # <<>>
    THEN to_api_params(optional_query[1])
    ELSE Params(20, 0, ABSENT, ABSENT, ABSENT, ABSENT, ABSENT)

\* a Decimal: units the float type can hold exactly, and a tail below
\* what it can hold (1E-400 is Decimal(0, 1))
Decimal(units, tail) == [units |-> units, tail |-> tail]

\* Field(gt=0)
gt_0(d) == d.units > 0 \/ (d.units = 0 /\ d.tail > 0)

\* float(d): the nearest float, the tail is lost
float(d) == d.units

\* the truth value of an Optional[Decimal]: <<>> is None
bool(optional_decimal) ==
    optional_decimal # <<>> /\ optional_decimal[1] # Decimal(0, 0)

RefundRequestArgs(tid, amount, reason) ==
    [transaction_id |-> tid, amount |-> amount, reason |-> reason]

\* RefundRequest(...): amount is None or a Decimal > 0
refund_validate(args) ==
    IF args.amount = <<>> \/ gt_0(args.amount[1])
    THEN Return(args)
    ELSE Raise(PydanticValidationError)

\* RefundRequest.to_api_payload; <<>> marks a key the dict does not have
to_api_payload_full_refund(r) ==
    [transactionId |-> r.transaction_id,
     amount |-> <<>>,
     reason |-> IF truthy(r.reason) THEN <<r.reason>> ELSE <<>>]

to_api_payload(r) ==
    [transactionId |-> r.transaction_id,
     amount |-> IF bool(r.amount) THEN <<float(r.amount[1])>> ELSE <<>>,
     reason |-> IF truthy(r.reason) THEN <<r.reason>> ELSE <<>>]

\* str.isdigit(): true of 0-9 and of the other Unicode digits, such as
\* ARABIC-INDIC DIGIT THREE (U+0663)
isdigit(c) == c \in {"7", "2", "U+0663"}

\* PaymentRequest.validate_phone_number
validate_phone_number_max_16(v) ==
    LET cleaned == SelectSeq(v, isdigit)
    IN  IF Len(cleaned) < 9 \/ Len(cleaned) > 16
        THEN Raise(PydanticValidationError)
        ELSE Return(cleaned)

validate_phone_number(v) ==
    LET cleaned == SelectSeq(v, isdigit)
    IN  IF Len(cleaned) < 9 \/ Len(cleaned) > 15
        THEN Raise(PydanticValidationError)
        ELSE Return(cleaned)

\* what one client.request call is given (client.py 156-161)
Request(method, path, json, params) ==
    [method |-> method, path |-> path, json |-> json, params |-> params]

\* the _request call each operation makes; <<>> stands for an argument
\* left at None
request_of(operation, q, r) ==
    CASE operation = "health_check" -> Request("GET", "/health", <<>>, <<>>)
      [] operation = "refund" ->
           Request("POST", "/refunds", <<to_api_payload(r.value)>>, <<>>)
      [] operation = "get_transaction_history" ->
           Request("GET", "/payments", <<>>, <<history_params(q)>>)
      [] OTHER -> Request("GET", "/payments/{transaction_id}", <<>>, <<>>)

\* method, url, json and params are the same names in every turn of the loop
attempt_args_first_only(args, n) ==
    IF n = 0 THEN args ELSE Request(args.method, args.path, <<>>, <<>>)

attempt_args(args, n) == args

\* client = await self._get_client() happens once, before the loop; the
\* handle is named by its ordinal among the handles created
Issue(handle, args, n) == [handle |-> handle, args |-> attempt_args(args, n)]

(* ------------------------------ actions -------------------------------- *)
\* the other parts of the client right after construction
PaymentConfigArgs(key, seconds, retries) ==
    [api_key |-> key, timeout |-> seconds, max_retries |-> retries]

\* PaymentConfig.__post_init__: the error it raises, None when it accepts
post_init_zero_timeout(args) ==
    IF args.api_key \in {None, ""} THEN "ValueError"
    ELSE IF args.timeout < 0 THEN "ValueError"
    ELSE IF args.max_retries < 0 THEN "ValueError"
    ELSE None

post_init(args) ==
    IF args.api_key \in {None, ""} THEN "ValueError"
    ELSE IF args.timeout <= 0 THEN "ValueError"
    ELSE IF args.max_retries < 0 THEN "ValueError"
    ELSE None

\* a client built by AfricaPaymentsClient(api_key="sk_test", timeout=1, ...)
ConfigAccepted ==
    /\ api_key = "sk_test"
    /\ config_timeout = 1
    /\ construction = "accepted"
    /\ config_args = PaymentConfigArgs(api_key, config_timeout, max_retries)

\* no BatchOperations object yet
NoBatch ==
    /\ _operations = <<>>
    /\ tasks = <<>>
    /\ batch_pc = "none"
    /\ batch_result = NoResult
    /\ executions = 0

\* the client is used outside any async-with block and was never closed
Unscoped ==
    /\ scope = "outside"
    /\ close_pc = "idle"
    /\ aclosed = 0
    /\ closes = <<>>

\* handle_webhook's state at an await, or when it has returned
Delivery(at, i, calls, result) ==
    [pc |-> at, i |-> i, calls |-> calls, result |-> result]

NoDelivery == Delivery("idle", 0, <<>>, NoResult)

NoOp == [op |-> "none", handler |-> None, before |-> <<>>, raised |-> None]

\* self._event_handlers = [] and no webhook received
NoHandlers ==
    /\ _event_handlers = <<>>
    /\ delivery = NoDelivery
    /\ last_op = NoOp

\* neither verify_webhook_signature nor get_transaction_history called
NoSignatureCall == signature_call = <<>> /\ signature_result = NoResult

NoQueryCall == query = <<>> /\ sent_params = NoResult

NoOtherCalls ==
    /\ refund_request = NoResult
    /\ phone_number = <<>>
    /\ payment_request = NoResult
    /\ web_request = <<>>
    /\ web_response = <<>>

ExtInit ==
    /\ ConfigAccepted
    /\ NoBatch
    /\ Unscoped
    /\ NoHandlers
    /\ NoSignatureCall
    /\ NoQueryCall
    /\ NoOtherCalls

\* self._client = None, and no operation called yet
Fresh ==
    /\ _client = None
    /\ op = "none"
    /\ pc = "idle"
    /\ attempt = 0
    /\ last_error = NoError
    /\ attempts = <<>>
    /\ sleeps = <<>>
    /\ last_outcome = NoOutcome
    /\ op_result = NoResult
    /\ now = 0
    /\ start_time = 0
    /\ interval = 0
    /\ timeout = 0
    /\ fetches = 0
    /\ callback = FALSE
    /\ callback_calls = 0
    /\ callback_arg = None
    /\ created = 0
    /\ sent = <<>>

Init ==
    /\ max_retries \in 0..MaxRetries
    /\ Fresh
    /\ ExtInit

\* time passes while the poll is suspended (the clock is read by
\* poll_transaction_status only)
Tick ==
    /\ op = "poll_transaction_status"
    /\ pc # "done"
    /\ now < MaxNow
    /\ now' = now + 1
    /\ UNCHANGED <<max_retries, _client, op, pc, attempt, last_error, attempts,
                   sleeps, last_outcome, op_result, start_time, interval,
                   timeout, fetches, poll_callback, created, sent, ext>>

\* _request up to its first await of client.request (client.py 151-154)
StartRequest ==
    /\ _client' = _get_client(_client)
    /\ created' = IF creates(_client) THEN created + 1 ELSE created
    /\ last_error' = NoError
    /\ attempt' = 0
    /\ attempts' = <<>>
    /\ sleeps' = <<>>
    /\ last_outcome' = NoOutcome
    /\ sent' = <<Issue(created', request_of(op', query, refund_request), 0)>>
    /\ pc' = "attempt"

health_check ==
    /\ pc = "idle"
    /\ op' = "health_check"
    /\ StartRequest
    /\ UNCHANGED <<max_retries, op_result, now, start_time, interval, timeout,
                   fetches, poll_callback, ext>>

CallGetTransaction ==
    /\ pc = "idle"
    /\ op' = "get_transaction"
    /\ StartRequest
    /\ UNCHANGED <<max_retries, op_result, now, start_time, interval, timeout,
                   fetches, poll_callback, ext>>

CallVerifyPayment ==
    /\ pc = "idle"
    /\ op' = "verify_payment"
    /\ StartRequest
    /\ UNCHANGED <<max_retries, op_result, now, start_time, interval, timeout,
                   fetches, poll_callback, ext>>

\* poll_transaction_status up to the first await (client.py 293-296); the
\* loop's clock has an arbitrary reading when the poll is called
poll_transaction_status ==
    /\ pc = "idle"
    /\ max_retries <= MaxPollRetries
    /\ op' = "poll_transaction_status"
    /\ \E i \in 0..MaxInterval, t \in 0..MaxTimeout :
          /\ interval' = i
          /\ timeout' = t
    /\ now' \in 0..MaxStart
    /\ start_time' = now'
    /\ callback' \in BOOLEAN
    /\ StartRequest
    /\ UNCHANGED <<max_retries, op_result, fetches, callback_calls,
                   callback_arg, ext>>

\* the facade operation resumes after its _request call ended with reqres
Finish(reqres) ==
    CASE op = "health_check" ->
           /\ op_result' = reqres
           /\ pc' = "done"
           /\ UNCHANGED <<fetches, callback_calls, callback_arg>>
      [] op = "get_transaction" ->
           /\ op_result' = get_transaction(reqres)
           /\ pc' = "done"
           /\ UNCHANGED <<fetches, callback_calls, callback_arg>>
      [] op = "verify_payment" ->
           /\ op_result' = verify_payment(reqres)
           /\ pc' = "done"
           /\ UNCHANGED <<fetches, callback_calls, callback_arg>>
      [] op = "refund" ->
           /\ op_result' = initiate_payment(reqres)
           /\ pc' = "done"
           /\ UNCHANGED <<fetches, callback_calls, callback_arg>>
      [] op = "get_transaction_history" ->
           /\ op_result' = get_history_result(reqres)
           /\ pc' = "done"
           /\ UNCHANGED <<fetches, callback_calls, callback_arg>>
      [] op = "poll_transaction_status" ->
           LET r == poll_iteration(reqres, now, start_time, timeout)
               fetched == get_transaction(reqres)
           IN  /\ fetches' = IF fetched.tag = "return" THEN Inc(fetches) ELSE fetches
               /\ IF callback_invoked(fetched, callback)
                  THEN /\ callback_calls' = Inc(callback_calls)
                       /\ callback_arg' = fetched.value.status
                  ELSE UNCHANGED <<callback_calls, callback_arg>>
               /\ IF r.tag = "sleep"
                  THEN pc' = "poll_sleep" /\ UNCHANGED op_result
                  ELSE pc' = "done" /\ op_result' = r

\* one attempt of _request: await client.request, then everything up to the
\* next await (client.py 155-185 and the caller's continuation)
Attempt(outcome) ==
    /\ pc = "attempt"
    /\ attempts' = Append(attempts, AttemptClass(outcome))
    /\ last_outcome' = outcome
    /\ LET step == except_clauses(try_body(outcome))
       IN  IF step.tag = "record"
           THEN /\ last_error' = record_error(last_error, step.value)
                /\ IF attempt < max_retries
                   THEN /\ pc' = "backoff"
                        /\ UNCHANGED <<op_result, fetches, callback_calls,
                                       callback_arg>>
                   ELSE Finish(after_loop(last_error'))
           ELSE /\ Finish(step)
                /\ UNCHANGED last_error
    /\ UNCHANGED <<max_retries, _client, op, attempt, sleeps, now, start_time,
                   interval, timeout, callback, created, sent, ext>>

\* await asyncio.sleep(wait_time), then the next turn of the loop
Backoff ==
    /\ pc = "backoff"
    /\ sleeps' = Append(sleeps, wait_time(attempt))
    /\ now' = now + wait_time(attempt)
    /\ attempt' = attempt + 1
    /\ last_outcome' = NoOutcome
    /\ sent' = Append(sent, Issue(sent[1].handle, request_of(op, query, refund_request), attempt'))
    /\ pc' = "attempt"
    /\ UNCHANGED <<max_retries, _client, op, last_error, attempts,
                   op_result, start_time, interval, timeout, fetches,
                   poll_callback, created, ext>>

\* await asyncio.sleep(interval), then the next get_transaction of the poll
PollSleep ==
    /\ pc = "poll_sleep"
    /\ now' = now + interval
    /\ op' = op
    /\ StartRequest
    /\ UNCHANGED <<max_retries, op_result, start_time, interval, timeout,
                   fetches, poll_callback, ext>>

Next ==
    \/ Tick
    \/ health_check
    \/ CallGetTransaction
    \/ CallVerifyPayment
    \/ poll_transaction_status
    \/ \E outcome \in Outcomes : Attempt(outcome)
    \/ Backoff
    \/ PollSleep

Spec == Init /\ [][Next]_vars

\* The poll alone, for the termination argument.  The event loop resumes a
\* coroutine whose sleep or request has completed, and time advances.
PollInit == Init /\ max_retries <= MaxPollRetries

\* what a fetch of the poll can meet: a transport failure, an error status,
\* or an answer with any body
PollOutcomes ==
    {o \in Outcomes : \/ o.t \in {"timeout", "network"}
                      \/ o.status = 200
                      \/ o.status = 500 /\ o.body = ArrayBody}

PollNext ==
    \/ Tick
    \/ poll_transaction_status
    \/ \E outcome \in PollOutcomes : Attempt(outcome)
    \/ Backoff
    \/ PollSleep

PollLiveSpec ==
    /\ PollInit
    /\ [][PollNext]_vars
    /\ WF_vars(Tick)
    /\ WF_vars(\E outcome \in PollOutcomes : Attempt(outcome))
    /\ WF_vars(Backoff)
    /\ WF_vars(PollSleep)

(* ------------------- BatchOperations (client.py 396-418) -------------- *)
\* payment requests, told apart by their reference
Requests == {"r1", "r2"}

\* what a sub-operation's await of client.request can produce
BatchOutcomes ==
    {Outcome("timeout", 0, ArrayBody),
     Outcome("response", 200, ArrayBody),
     Outcome("response", 200, Body("object", "", ABSENT, ABSENT, ABSENT, SUCCESS)),
     Outcome("response", 200, Body("object", "", ABSENT, ABSENT, ABSENT, PENDING))}

\* batch_ops = BatchOperations(self)
batch ==
    /\ batch_pc = "none"
    /\ batch_pc' = "collecting"
    /\ _operations' = <<>>
    /\ tasks' = <<>>
    /\ batch_result' = NoResult
    /\ executions' = 0
    /\ UNCHANGED <<core, config, webhooks, pure_calls, lifecycle>>

\* the body of the async with block ends: finally: pass (client.py 390-393)
batch_exit ==
    /\ batch_pc \in {"collecting", "done"}
    /\ batch_pc' = "none"
    /\ UNCHANGED <<core, config, webhooks, pure_calls, lifecycle, _operations,
                   tasks, batch_result, executions>>

add_payment ==
    /\ batch_pc \in {"collecting", "done"}
    /\ Len(_operations) < MaxBatch
    /\ \E request \in Requests :
          _operations' = Append(_operations, <<"payment", request>>)
    /\ batch_pc' = "collecting"
    /\ UNCHANGED <<core, config, webhooks, pure_calls, lifecycle, tasks,
                   batch_result, executions>>

\* execute reads self._operations and assigns nothing to it
operations_cleared(operations) == <<>>

operations_after_execute(operations) == operations

\* execute up to its await of asyncio.gather (client.py 413-418)
execute ==
    /\ batch_pc \in {"collecting", "done"}
    /\ executions < MaxExecutions
    /\ executions' = executions + 1
    /\ tasks' = [i \in 1..Len(_operations) |-> NewTask(_operations[i][2])]
    /\ _operations' = operations_after_execute(_operations)
    /\ batch_pc' = "gathering"
    /\ batch_result' = NoResult
    /\ UNCHANGED <<core, config, webhooks, pure_calls, lifecycle>>

\* sub-operation i runs up to its first await of client.request
TaskStart(i) ==
    /\ batch_pc = "gathering"
    /\ tasks[i].pc = "created"
    /\ _client' = _get_client(_client)
    /\ created' = IF creates(_client) THEN created + 1 ELSE created
    /\ tasks' = [tasks EXCEPT ![i].pc = "attempt", ![i].handle = created']
    /\ UNCHANGED <<max_retries, request_state, config, webhooks, pure_calls,
                   lifecycle, _operations, batch_pc, batch_result, executions>>

\* one attempt of sub-operation i, as Attempt
TaskAttempt(i, outcome) ==
    /\ batch_pc = "gathering"
    /\ tasks[i].pc = "attempt"
    /\ LET t == tasks[i]
           step == except_clauses(try_body(outcome))
           le == IF step.tag = "record"
                 THEN record_error(t.last_error, step.value)
                 ELSE t.last_error
           retry == step.tag = "record" /\ t.attempt < max_retries
           reqres == IF step.tag = "record" THEN after_loop(le) ELSE step
       IN  tasks' = [tasks EXCEPT ![i] =
                [t EXCEPT !.outcome = outcome,
                          !.last_error = le,
                          !.pc = IF retry THEN "backoff" ELSE "done",
                          !.result = IF retry THEN NoResult
                                     ELSE initiate_payment(reqres)]]
    /\ UNCHANGED <<core, config, webhooks, pure_calls, lifecycle, _operations,
                   batch_pc, batch_result, executions>>

TaskBackoff(i) ==
    /\ batch_pc = "gathering"
    /\ tasks[i].pc = "backoff"
    /\ tasks' = [tasks EXCEPT ![i].pc = "attempt",
                              ![i].attempt = tasks[i].attempt + 1]
    /\ UNCHANGED <<core, config, webhooks, pure_calls, lifecycle, _operations,
                   batch_pc, batch_result, executions>>

\* the gather completes when its last sub-operation has; execute returns
GatherDone ==
    /\ batch_pc = "gathering"
    /\ \A i \in DOMAIN tasks : tasks[i].pc = "done"
    /\ batch_result' = gather([i \in DOMAIN tasks |-> tasks[i].result])
    /\ batch_pc' = "done"
    /\ UNCHANGED <<core, config, webhooks, pure_calls, lifecycle, _operations,
                   tasks, executions>>

BatchInit == Init /\ max_retries <= MaxBatchRetries

BatchNext ==
    \/ batch
    \/ batch_exit
    \/ add_payment
    \/ execute
    \/ \E i \in DOMAIN tasks : TaskStart(i)
    \/ \E i \in DOMAIN tasks, outcome \in BatchOutcomes : TaskAttempt(i, outcome)
    \/ \E i \in DOMAIN tasks : TaskBackoff(i)
    \/ GatherDone

BatchSpec == BatchInit /\ [][BatchNext]_vars

(* ------------- async with client, close (client.py 105-128) ----------- *)
\* no request of the client is in flight
Quiet == pc \in {"idle", "done"} /\ close_pc = "idle"

CloseRecord(by, did) == [by |-> by, did |-> did]

\* async with client: __aenter__ gets the handle, creating it if need be
aenter ==
    /\ scope = "outside"
    /\ Quiet
    /\ _client # None \/ created < MaxHandles
    /\ _client' = _get_client(_client)
    /\ created' = IF creates(_client) THEN created + 1 ELSE created
    /\ scope' = "inside"
    /\ UNCHANGED <<max_retries, request_state, config, webhooks, pure_calls,
                   batch_state, close_pc, aclosed, closes>>

\* close() called by `by`, up to its await of aclose(); with no handle it
\* returns at once
CloseCall(by) ==
    /\ Len(closes) < MaxCloses
    /\ IF close_awaits(_client)
       THEN /\ close_pc' = by
            /\ UNCHANGED <<closes, scope>>
       ELSE /\ closes' = Append(closes, CloseRecord(by, "nothing"))
            /\ scope' = IF by = "close" THEN scope ELSE "outside"
            /\ UNCHANGED close_pc
    /\ UNCHANGED <<core, config, webhooks, pure_calls, batch_state, aclosed>>

close ==
    /\ Quiet
    /\ CloseCall("close")

\* the async-with body ended, by return or by an error: __aexit__(*args)
aexit ==
    /\ scope = "inside"
    /\ Quiet
    /\ \E cause \in {"return", "error"} :
          IF aexit_closes(cause)
          THEN CloseCall(cause)
          ELSE /\ scope' = "outside"
               /\ UNCHANGED <<core, config, webhooks, pure_calls, batch_state,
                              close_pc, aclosed, closes>>

\* aclose() has completed: self._client = None, close returns
CloseResume ==
    /\ close_pc # "idle"
    /\ aclosed' = aclosed + 1
    /\ _client' = None
    /\ closes' = Append(closes, CloseRecord(close_pc, "aclose"))
    /\ scope' = IF close_pc = "close" THEN scope ELSE "outside"
    /\ close_pc' = "idle"
    /\ UNCHANGED <<max_retries, created, request_state, config, webhooks,
                   pure_calls, batch_state>>

\* one operation of the client, inside or outside the block
Use ==
    /\ close_pc = "idle"
    /\ _client # None \/ created < MaxHandles
    /\ \/ health_check
       \/ \E outcome \in BatchOutcomes : Attempt(outcome)
       \/ Backoff

ScopeNext ==
    \/ aenter
    \/ aexit
    \/ close
    \/ CloseResume
    \/ Use

ScopeSpec == BatchInit /\ [][ScopeNext]_vars

(* ------------------ the request models ---------------------------------- *)

\* RefundRequest(transactionId=..., amount=..., reason=...)
RefundRequest ==
    /\ refund_request = NoResult
    /\ payment_request = NoResult
    /\ \E tid \in {"", "tx1"}, reason \in {None, "", "duplicate"},
          amount \in {<<>>} \cup {<<Decimal(u, t)>> : u \in (-1)..MaxAmount,
                                                     t \in {0, 1}} :
          refund_request' = refund_validate(RefundRequestArgs(tid, amount, reason))
    /\ UNCHANGED <<core, config, batch_state, lifecycle, webhooks,
                   signature_call, signature_result, query, sent_params,
                   phone_number, payment_request, framework>>

\* refund(request) up to its await of _request (client.py 249-252)
refund ==
    /\ pc = "idle"
    /\ refund_request.tag = "return"
    /\ op' = "refund"
    /\ StartRequest
    /\ UNCHANGED <<max_retries, op_result, now, start_time, interval, timeout,
                   fetches, poll_callback, ext>>

\* a string of n characters c
Repeat(c, n) == [i \in 1..n |-> c]

\* PaymentRequest(phone_number=v, ...), the other fields being valid
PaymentRequest ==
    /\ refund_request = NoResult
    /\ payment_request = NoResult
    /\ \E c1, c2, c3 \in {"7", "2", "U+0663", "-"},
          n1, n2, n3 \in {0, 1, 7, 8, MaxPhoneRun} :
          phone_number' = Repeat(c1, n1) \o Repeat(c2, n2) \o Repeat(c3, n3)
    /\ payment_request' = validate_phone_number(phone_number')
    /\ UNCHANGED <<core, config, batch_state, lifecycle, webhooks,
                   signature_call, signature_result, query, sent_params,
                   refund_request, framework>>

ModelsNext ==
    \/ RefundRequest
    \/ PaymentRequest
    \/ refund
    \/ \E outcome \in BatchOutcomes : Attempt(outcome)
    \/ Backoff

ModelsSpec == BatchInit /\ [][ModelsNext]_vars

(* ------------------ close() while an operation is running --------------- *)

\* aclose() has been called on handle h: close is awaiting it, or it is done
ClosingOrClosed(h) == h <= aclosed \/ (close_pc # "idle" /\ h = created)

\* close() called by another task of the same event loop while an operation
\* is at one of its awaits: nothing in close or _request excludes it
close_during_use ==
    /\ close_pc = "idle"
    /\ pc # "done"
    /\ CloseCall("close")

\* an attempt over the handle captured at client.py 151: a closed httpx
\* client refuses the request, one being closed may still answer
RaceAttempt ==
    /\ pc = "attempt"
    /\ LET h == sent[1].handle
           refused == Outcome("error", 0, ArrayBody)
       IN  \E outcome \in (IF h <= aclosed THEN {refused}
                           ELSE IF ClosingOrClosed(h)
                                THEN BatchOutcomes \cup {refused}
                                ELSE BatchOutcomes) : Attempt(outcome)

RaceNext ==
    \/ close_during_use
    \/ CloseResume
    \/ health_check
    \/ RaceAttempt
    \/ Backoff

RaceSpec == BatchInit /\ [][RaceNext]_vars

(* ------------------ webhook handlers (client.py 312-362) --------------- *)
\* handlers, told apart by what a call of them does
Handlers == {"sync_ok", "sync_raise", "async_ok", "async_raise"}
AsyncHandlers == {"async_ok", "async_raise"}      \* return a coroutine
RaisingHandlers == {"sync_raise", "async_raise"}  \* end with an exception
HandlerError == Exc("HandlerError", "handler failed", None, EMPTY)

Range(list) == {list[i] : i \in DOMAIN list}

\* list.append
append_if_absent(list, handler) ==
    IF handler \in Range(list) THEN list ELSE Append(list, handler)

append(list, handler) == Append(list, handler)

\* list.remove: drops the first occurrence, ValueError when there is none
remove(list, handler) ==
    IF handler \notin Range(list)
    THEN [list |-> list, raised |-> "ValueError"]
    ELSE LET k == CHOOSE i \in DOMAIN list :
                      /\ list[i] = handler
                      /\ \A j \in 1..(i - 1) : list[j] # handler
         IN  [list |-> SubSeq(list, 1, k - 1) \o SubSeq(list, k + 1, Len(list)),
              raised |-> None]

\* except Exception: pass (client.py 361-362): the loop goes on either way
after_handler_reraise(raised) == IF raised THEN "raise" ELSE "continue"

after_handler(raised) == "continue"

\* the for loop of handle_webhook from handler i up to its next await
RECURSIVE run_handlers(_, _, _)
run_handlers(list, i, calls) ==
    IF i > Len(list)
    THEN Delivery("done", i, calls, Return(None))
    ELSE IF list[i] \in AsyncHandlers
         THEN Delivery("await", i, Append(calls, list[i]), NoResult)
         ELSE IF after_handler(list[i] \in RaisingHandlers) = "raise"
              THEN Delivery("done", i, Append(calls, list[i]), Raise(HandlerError))
              ELSE run_handlers(list, i + 1, Append(calls, list[i]))

add_event_handler ==
    /\ delivery.pc # "await"
    /\ Len(_event_handlers) < MaxRegistered
    /\ \E handler \in Handlers :
          /\ _event_handlers' = append(_event_handlers, handler)
          /\ last_op' = [op |-> "add", handler |-> handler,
                         before |-> _event_handlers, raised |-> None]
    /\ delivery' = NoDelivery
    /\ UNCHANGED <<core, config, pure_calls, batch_state, lifecycle>>

remove_event_handler ==
    /\ delivery.pc # "await"
    /\ \E handler \in Handlers :
          LET r == remove(_event_handlers, handler)
          IN  /\ _event_handlers' = r.list
              /\ last_op' = [op |-> "remove", handler |-> handler,
                             before |-> _event_handlers, raised |-> r.raised]
    /\ delivery' = NoDelivery
    /\ UNCHANGED <<core, config, pure_calls, batch_state, lifecycle>>

\* handle_webhook up to its first await; a payload that is not a
\* WebhookEvent fails model_validate
handle_webhook ==
    /\ delivery.pc # "await"
    /\ \E wellformed \in BOOLEAN :
          delivery' = IF wellformed
                      THEN run_handlers(_event_handlers, 1, <<>>)
                      ELSE Delivery("done", 0, <<>>, Raise(PydanticValidationError))
    /\ UNCHANGED <<core, config, pure_calls, batch_state, lifecycle,
                   _event_handlers, last_op>>

\* await result has completed, with or without an exception
HandlerResume ==
    /\ delivery.pc = "await"
    /\ delivery' =
          IF after_handler(_event_handlers[delivery.i] \in RaisingHandlers) = "raise"
          THEN Delivery("done", delivery.i, delivery.calls, Raise(HandlerError))
          ELSE run_handlers(_event_handlers, delivery.i + 1, delivery.calls)
    /\ UNCHANGED <<core, config, pure_calls, batch_state, lifecycle,
                   _event_handlers, last_op>>

WebhookNext ==
    \/ add_event_handler
    \/ remove_event_handler
    \/ handle_webhook
    \/ HandlerResume

WebhookSpec == Init /\ [][WebhookNext]_vars

(* ------------- verify_webhook_signature (client.py 328-346) ----------- *)
\* characters of a signature string: hex digits and one non-ASCII character
NonAscii == "e-acute"
Chars == {"0", "1", NonAscii}

RECURSIVE Strings(_)
Strings(n) ==
    IF n = 0 THEN {<<>>}
    ELSE LET shorter == Strings(n - 1)
         IN  shorter \cup {Append(w, c) : w \in shorter, c \in Chars}

\* hmac.new(secret.encode(), payload, hashlib.sha256).hexdigest(): a string
\* of DigestLen hex digits fixed by the secret and the payload together
hexdigest(secret, payload) ==
    LET k == IF secret = "s1" THEN 0 ELSE 1
        m == IF payload = "p1" THEN 0 ELSE 1
        digit(n) == IF n % 2 = 0 THEN "0" ELSE "1"
    IN  [i \in 1..DigestLen |-> digit(k * i + m * (i + 1) + k * m)]

\* hmac.compare_digest(a, b) on two str: TypeError unless both are ASCII
compare_digest(a, b) ==
    IF \E i \in DOMAIN a : a[i] = NonAscii
    THEN Raise(TypeError)
    ELSE Return(a = b)

verify_webhook_signature ==
    /\ signature_result = NoResult
    /\ signature_call # <<>>
    /\ LET c == signature_call[1]
       IN  signature_result' =
               compare_digest(c.signature, hexdigest(c.secret, c.payload))
    /\ UNCHANGED <<core, config, batch_state, lifecycle, webhooks,
                   signature_call, query, sent_params, other_calls>>

SigInit ==
    /\ max_retries = 0
    /\ Fresh
    /\ ConfigAccepted /\ NoBatch /\ Unscoped /\ NoHandlers /\ NoQueryCall
    /\ NoOtherCalls
    /\ signature_call \in
          {<<[payload |-> p, signature |-> g, secret |-> k]>> :
              p \in {"p1", "p2"}, g \in Strings(MaxSignature),
              k \in {"s1", "s2"}}
    /\ signature_result = NoResult

SigSpec == SigInit /\ [][verify_webhook_signature]_vars

(* ------------------ PaymentConfig (config.py 9-36) -------------------- *)
\* PaymentConfig(api_key=..., timeout=..., max_retries=...)
PaymentConfig ==
    /\ construction = "pending"
    /\ IF post_init(config_args) = None
       THEN /\ construction' = "accepted"
            /\ api_key' = config_args.api_key
            /\ config_timeout' = config_args.timeout
            /\ max_retries' = config_args.max_retries
       ELSE /\ construction' = "rejected"
            /\ UNCHANGED <<api_key, config_timeout, max_retries>>
    /\ UNCHANGED <<_client, created, request_state, config_args, batch_state,
                   lifecycle, webhooks, pure_calls>>

ConfigInit ==
    /\ construction = "pending"
    /\ config_args \in
          {PaymentConfigArgs(k, t, m) :
              k \in {None, "", "sk_test"}, t \in (-1)..MaxConfigTimeout,
              m \in (-1)..MaxBatchRetries}
    /\ api_key = None
    /\ config_timeout = 0
    /\ max_retries = 0
    /\ Fresh
    /\ NoBatch /\ Unscoped /\ NoHandlers /\ NoSignatureCall /\ NoQueryCall
    /\ NoOtherCalls

\* a client exists only for an accepted configuration
ConfigNext ==
    \/ PaymentConfig
    \/ construction = "accepted" /\ ScopeNext

ConfigSpec == ConfigInit /\ [][ConfigNext]_vars

(* ----- get_transaction_history (client.py 224-237, models.py 148-187) -- *)
\* get_transaction_history up to its await of _request
get_transaction_history ==
    /\ pc = "idle"
    /\ sent_params = NoResult
    /\ sent_params' = Return(history_params(query))
    /\ op' = "get_transaction_history"
    /\ StartRequest
    /\ UNCHANGED <<max_retries, op_result, now, start_time, interval, timeout,
                   fetches, poll_callback, config, batch_state, lifecycle,
                   webhooks, signature_call, signature_result, query,
                   other_calls>>

QueryInit ==
    /\ max_retries \in 0..MaxBatchRetries
    /\ Fresh
    /\ ConfigAccepted /\ NoBatch /\ Unscoped /\ NoHandlers /\ NoSignatureCall
    /\ NoOtherCalls
    /\ query \in {<<>>} \cup {<<q>> : q \in Queries}
    /\ sent_params = NoResult

QueryNext ==
    \/ get_transaction_history
    \/ \E outcome \in BatchOutcomes : Attempt(outcome)
    \/ Backoff

QuerySpec == QueryInit /\ [][QueryNext]_vars

(* ------------------ the Django and Flask integrations ------------------- *)

\* an HTTP request and what surrounds it: the transaction id in the query
\* string and in the form, the body ("nonjson"; "array", a JSON list; "p1",
\* an event object with a top-level transaction_id; "p2", one without),
\* the stored transaction, how the client's fetch would end, the
\* X-Webhook-Signature header and the configured webhook secret
WebRequest(args_id, form_id, body, store, fetch, signature, secret) ==
    [args_id |-> args_id, form_id |-> form_id, body |-> body, store |-> store,
     fetch |-> fetch, signature |-> signature, secret |-> secret]

\* what a view did: the status of its response, whether the wrapped view
\* ran, whether handlers were called, and the stored transaction afterwards
WebResponse(endpoint, status, view_called, dispatched, store) ==
    [endpoint |-> endpoint, status |-> status, view_called |-> view_called,
     dispatched |-> dispatched, store |-> store]

\* request.GET.get(...) or request.POST.get(...)
django_transaction_id(r) ==
    IF truthy(r.args_id) THEN r.args_id ELSE r.form_id

\* request.args.get(...) or request.form.get(...) or
\* (request.get_json(silent=True) or {}).get("transaction_id")
flask_transaction_id(r) ==
    IF truthy(r.args_id) THEN Return(r.args_id)
    ELSE IF truthy(r.form_id) THEN Return(r.form_id)
    ELSE CASE r.body = "array" -> Raise(AttributeError)
           [] r.body = "p1" -> Return("tx1")
           [] OTHER -> Return(None)

\* client.get_transaction(...) and the test of is_success, both inside try
fetched_success(r) ==
    LET tx == get_transaction(r.fetch)
    IN  tx.tag = "return" /\ is_success(tx.value)

\* django_integration/decorators.py payment_required
django_payment_required ==
    /\ web_request # <<>>
    /\ web_response = <<>>
    /\ LET r == web_request[1]
           status ==
               IF ~truthy(django_transaction_id(r)) THEN 403
               ELSE CASE r.store = "db_error" -> 500
                      [] r.store = "missing" ->
                           IF fetched_success(r) THEN 200 ELSE 403
                      [] OTHER -> IF r.store = SUCCESS THEN 200 ELSE 403
       IN  web_response' =
               <<WebResponse("django_view", status, status = 200, FALSE, r.store)>>
    /\ UNCHANGED <<core, config, batch_state, lifecycle, webhooks,
                   signature_call, signature_result, query, sent_params,
                   refund_request, phone_number, payment_request, web_request>>

\* flask_integration/decorators.py payment_required
flask_payment_required ==
    /\ web_request # <<>>
    /\ web_response = <<>>
    /\ LET r == web_request[1]
           id == flask_transaction_id(r)
           status ==
               IF id.tag = "raise" THEN 500
               ELSE IF ~truthy(id.value) THEN 403
               ELSE IF fetched_success(r) THEN 200 ELSE 403
       IN  web_response' =
               <<WebResponse("flask_view", status, status = 200, FALSE, r.store)>>
    /\ UNCHANGED <<core, config, batch_state, lifecycle, webhooks,
                   signature_call, signature_result, query, sent_params,
                   refund_request, phone_number, payment_request, web_request>>

\* the status the event of a body carries
event_status(body) == IF body = "p1" THEN SUCCESS ELSE FAILED

\* django_integration/views.py PaymentWebhookView.post with _log_webhook
\* and _update_transaction: the signature header is read and logged
django_webhook ==
    /\ web_request # <<>>
    /\ web_response = <<>>
    /\ LET r == web_request[1]
       IN  web_response' =
             CASE r.body = "nonjson" ->
                    <<WebResponse("django_webhook", 400, FALSE, FALSE, r.store)>>
               [] r.body = "array" ->
                    <<WebResponse("django_webhook", 500, FALSE, FALSE, r.store)>>
               [] OTHER ->
                    <<WebResponse("django_webhook", 200, FALSE, TRUE,
                                  IF r.store \in {"missing", "db_error"}
                                  THEN r.store ELSE event_status(r.body))>>
    /\ UNCHANGED <<core, config, batch_state, lifecycle, webhooks,
                   signature_call, signature_result, query, sent_params,
                   refund_request, phone_number, payment_request, web_request>>

\* flask_integration/views.py webhook with _handle_webhook_event
flask_webhook ==
    /\ web_request # <<>>
    /\ web_response = <<>>
    /\ LET r == web_request[1]
           is_valid ==
               IF r.secret # <<>>
               THEN compare_digest(r.signature, hexdigest(r.secret[1], r.body))
               ELSE Return(TRUE)
       IN  \E unparsed \in {400, 500} :
             web_response' =
               CASE r.body = "nonjson" ->
                      <<WebResponse("flask_webhook", unparsed, FALSE, FALSE, r.store)>>
                 [] is_valid.tag = "raise" ->
                      <<WebResponse("flask_webhook", 500, FALSE, FALSE, r.store)>>
                 [] ~is_valid.value ->
                      <<WebResponse("flask_webhook", 401, FALSE, FALSE, r.store)>>
                 [] r.body = "array" ->
                      <<WebResponse("flask_webhook", 500, FALSE, FALSE, r.store)>>
                 [] OTHER ->
                      <<WebResponse("flask_webhook", 200, FALSE, TRUE, r.store)>>
    /\ UNCHANGED <<core, config, batch_state, lifecycle, webhooks,
                   signature_call, signature_result, query, sent_params,
                   refund_request, phone_number, payment_request, web_request>>

ViewsInit ==
    /\ max_retries = 0
    /\ Fresh
    /\ ConfigAccepted /\ NoBatch /\ Unscoped /\ NoHandlers /\ NoSignatureCall
    /\ NoQueryCall
    /\ refund_request = NoResult /\ phone_number = <<>>
    /\ payment_request = NoResult
    /\ web_request \in
         {<<WebRequest(a, f, b, st, fetch, g, k)>> :
             a \in {None, "tx1"}, f \in {None, "", "tx1"},
             b \in {"nonjson", "array", "p1", "p2"},
             st \in {"missing", "db_error", SUCCESS, PENDING},
             fetch \in {Raise(AfricaPaymentsError("Network error", None, None))}
                       \cup {Return(Body("object", "", ABSENT, ABSENT, ABSENT, fs)) :
                                fs \in {SUCCESS, FAILED, ABSENT}},
             g \in Strings(DigestLen), k \in {<<>>, <<"s1">>}}
    /\ web_response = <<>>

ViewsNext ==
    \/ django_payment_required
    \/ flask_payment_required
    \/ django_webhook
    \/ flask_webhook

ViewsSpec == ViewsInit /\ [][ViewsNext]_vars

(* ------------------------------ properties ----------------------------- *)
\* operations whose caller receives what _request (or the fetch) raised
Propagating == {"health_check", "get_transaction", "poll_transaction_status"}

IsResponse(o) == o.t = "response"
IsErrorResponse(o) == IsResponse(o) /\ o.status >= 400
IsOkResponse(o) == IsResponse(o) /\ o.status < 400

\* C1: a response with status >= 400 ends the call with that one attempt:
\* the call raises, with no backoff sleep and no second attempt, whatever
\* max_retries is.
C1_ErrorStatusOneAttempt ==
    IsErrorResponse(last_outcome) =>
        /\ pc = "done"
        /\ Len(attempts) = 1
        /\ sleeps = <<>>
        /\ (op \in Propagating => op_result.tag = "raise")

\* the table of section 4.3
C2_TableKind(status) ==
    CASE status = 400 -> "ValidationError"
      [] status = 401 -> "AuthenticationError"
      [] status = 404 -> "NotFoundError"
      [] status = 409 -> "PaymentError"
      [] status = 429 -> "RateLimitError"
      [] status = 500 -> "ServerError"
      [] OTHER -> "AfricaPaymentsError"

\* C2: for status 400, 401, 404, 409, 429, 500 and any {message, code,
\* details} body the caller receives the error kind of the table, and the
\* generic API error for any other status >= 400 below 500.
C2_ErrorKindPerTable ==
    (/\ pc = "done"
     /\ op \in Propagating
     /\ IsErrorResponse(last_outcome)
     /\ last_outcome.status <= 500
     /\ last_outcome.body.form = "object")
    => /\ op_result.tag = "raise"
       /\ op_result.value.kind = C2_TableKind(last_outcome.status)

AllTimeouts == \A i \in 1..Len(attempts) : attempts[i] = "timeout"

\* C3: when every attempt times out, a call with max_retries = N ends after
\* exactly N+1 attempts and N sleeps of 1, 2, 4, ..., 2^(N-1) seconds (none
\* after the last attempt), raising a timeout error.
C3_AllTimeoutsBackoff ==
    (pc = "done" /\ AllTimeouts) =>
        /\ Len(attempts) = max_retries + 1
        /\ sleeps = [k \in 1..max_retries |-> 2 ^ (k - 1)]
        /\ (op \in Propagating =>
              /\ op_result.tag = "raise"
              /\ op_result.value.kind = "TimeoutError"
              /\ op_result.value.code = "TIMEOUT")

C3_Witness ==
    /\ pc = "done"
    /\ op = "health_check"
    /\ max_retries = 3
    /\ AllTimeouts
    /\ sleeps = <<1, 2, 4>>
    /\ op_result.tag = "raise"

\* C4: a response with status < 400 ends the call with that attempt: no
\* sleep and no further attempt follows, and the call returns the parsed
\* body of that response, for every body.
C4_SuccessEndsCall ==
    IsOkResponse(last_outcome) =>
        /\ pc # "backoff"
        /\ (op = "health_check" =>
              /\ pc = "done"
              /\ op_result = Return(last_outcome.body))

\* C5: only an attempt that failed at the transport (a timeout, a lost
\* connection; any exception of client.request is counted here) is followed
\* by another attempt or by the sleep before one; an attempt that received a
\* response, whatever its status and body, never is.
TransportFailures == {"timeout", "network", "error"}

C5_RetryOnlyAfterNetworkFailure ==
    /\ \A i \in 1..(Len(attempts) - 1) : attempts[i] \in TransportFailures
    /\ (pc = "backoff" => attempts[Len(attempts)] \in TransportFailures)

AllNetworkLevel ==
    \A i \in 1..Len(attempts) : attempts[i] \in {"timeout", "network"}

\* C6: when all max_retries+1 attempts fail with timeouts or network
\* failures, the caller receives the error recorded for the final attempt:
\* a timeout error if it timed out, a network error if it lost connectivity.
C6_LastFailureRaised ==
    (/\ pc = "done"
     /\ op \in Propagating
     /\ Len(attempts) = max_retries + 1
     /\ AllNetworkLevel)
    => /\ op_result.tag = "raise"
       /\ IF attempts[Len(attempts)] = "timeout"
          THEN /\ op_result.value.kind = "TimeoutError"
               /\ op_result.value.message = "Request timed out"
          ELSE /\ op_result.value.kind = "AfricaPaymentsError"
               /\ op_result.value.message = "Network error"

C6_Witness ==
    /\ pc = "done"
    /\ op = "get_transaction"
    /\ attempts = <<"network", "timeout", "network">>
    /\ max_retries = 2
    /\ op_result.tag = "raise"
    /\ op_result.value.message = "Network error"

\* C7: the error raised for a response with status >= 400 carries the
\* body's message ("Unknown error" when the body has none; the raw text when
\* the body is not JSON), the body's code and the body's details.
C7_ErrorCarriesBody ==
    (/\ pc = "done"
     /\ op \in Propagating
     /\ IsErrorResponse(last_outcome)
     /\ last_outcome.body.form # "array")
    => /\ op_result.tag = "raise"
       /\ LET b == last_outcome.body
          IN  /\ op_result.value.message =
                    (IF b.form = "nonjson" THEN b.text
                     ELSE IF b.message = ABSENT THEN "Unknown error"
                     ELSE b.message)
              /\ op_result.value.code = (IF b.code = ABSENT THEN None ELSE b.code)
              /\ op_result.value.details =
                    (IF b.details = ABSENT THEN EMPTY ELSE b.details)

FetchedStatus(o) ==
    IF IsOkResponse(o) /\ o.body.form = "object" THEN o.body.status ELSE ABSENT

\* C8: verify_payment gives its caller TRUE exactly when the fetch succeeded
\* with status success, and FALSE, never an error, for any other status and
\* for every failure of the fetch.
C8_VerifyPaymentBoolean ==
    (op = "verify_payment" /\ pc = "done") =>
        /\ op_result.tag = "return"
        /\ op_result.value = (FetchedStatus(last_outcome) = SUCCESS)

C8_Witness ==
    /\ op = "verify_payment"
    /\ pc = "done"
    /\ IsOkResponse(last_outcome)
    /\ last_outcome.body.form = "object"
    /\ last_outcome.body.status = ABSENT
    /\ op_result = Return(FALSE)

Polling == op = "poll_transaction_status"

\* C9: the poll returns the transaction of the first fetch whose status is
\* not pending, however much time has elapsed by then, and nothing (no
\* fetch, no sleep) happens after it has ended.
C9_PollReturnsFirstFinal ==
    /\ []((Polling /\ FetchedStatus(last_outcome) \in PaymentStatus \ {PENDING})
            => /\ pc = "done"
               /\ op_result = Return(PaymentResponse(last_outcome.body.status)))
    /\ [][pc = "done" => UNCHANGED vars]_vars

C9_Witness ==
    /\ Polling
    /\ pc = "done"
    /\ fetches = 2
    /\ now - start_time > timeout
    /\ op_result = Return(PaymentResponse(CANCELLED))

\* C10: after a fetch that returned pending the poll raises the timeout
\* error exactly when the time elapsed since the start time (captured once,
\* when the poll was called) is >= timeout, and sleeps otherwise; nothing
\* happens after the poll has ended; and with time advancing every poll ends.
C10_PollTimesOut ==
    /\ [][(Polling /\ pc = "attempt" /\ FetchedStatus(last_outcome') = PENDING)
            => IF now - start_time >= timeout
               THEN /\ pc' = "done"
                    /\ op_result'.tag = "raise"
                    /\ op_result'.value.kind = "TimeoutError"
                    /\ op_result'.value.message = "Polling timed out"
               ELSE pc' = "poll_sleep"]_vars
    /\ [][(~Polling /\ Polling') => start_time' = now']_vars
    /\ [][Polling => start_time' = start_time]_vars
    /\ [][pc = "done" => UNCHANGED <<pc, fetches, attempts, sleeps, now>>]_vars
    /\ (Polling ~> pc = "done")

C10_Witness ==
    /\ Polling
    /\ pc = "done"
    /\ fetches = 2
    /\ timeout > 0
    /\ op_result.tag = "raise"
    /\ op_result.value.message = "Polling timed out"

\* C11: with a callback, the poll invokes it once after every fetch that
\* returned a transaction, with that transaction and before its status is
\* tested, the final fetch included: invocations equal completed fetches.
C11_CallbackAfterEveryFetch ==
    /\ [](Polling =>
            /\ callback_calls = (IF callback THEN fetches ELSE 0)
            /\ (callback /\ FetchedStatus(last_outcome) # ABSENT
                  => callback_arg = FetchedStatus(last_outcome)))
    /\ [][(Polling /\ callback /\ fetches < MaxCount /\ fetches' = fetches + 1)
            => callback_calls' = callback_calls + 1]_vars

C11_Witness ==
    /\ Polling
    /\ callback
    /\ pc = "done"
    /\ fetches = 2
    /\ callback_calls = 2
    /\ callback_arg = FAILED
    /\ op_result = Return(PaymentResponse(FAILED))

\* what request i of a finished batch ended with, from its own last answer
SubResult(t) ==
    IF t.outcome.t = "response" /\ t.outcome.body.form = "object"
    THEN Return(PaymentResponse(t.outcome.body.status))
    ELSE IF t.outcome.t = "response"
         THEN Raise(PydanticValidationError)
         ELSE Raise(TimeoutError("Request timed out", NoKwargs))

\* C12: execute returns only after every sub-operation has finished, a list
\* with one entry per added payment in the order added; entry i is the
\* PaymentResponse of request i or the error it failed with, whatever the
\* other sub-operations did.
C12_BatchOneEntryPerPayment ==
    batch_pc = "done" =>
        /\ \A i \in DOMAIN tasks : tasks[i].pc = "done"
        /\ batch_result.tag = "return"
        /\ Len(batch_result.value) = Len(_operations)
        /\ \A i \in DOMAIN _operations :
              /\ tasks[i].req = _operations[i][2]
              /\ batch_result.value[i] = tasks[i].result
              /\ batch_result.value[i] = SubResult(tasks[i])

C12_Witness ==
    /\ batch_pc = "done"
    /\ _operations = <<(<<"payment", "r2">>), (<<"payment", "r1">>)>>
    /\ batch_result.value[1].tag = "raise"
    /\ batch_result.value[2] = Return(PaymentResponse(SUCCESS))
    /\ tasks[1].attempt = 1
    /\ tasks[2].attempt = 0

\* C13: concurrently running operations of one client that find no handle
\* create one handle among them and all use it; while a handle exists,
\* _get_client creates no other.
C13_OneHandle ==
    /\ [](\A i \in DOMAIN tasks :
            tasks[i].pc # "created" =>
                /\ _client # None
                /\ tasks[i].handle = created
                /\ created = 1)
    /\ [][created' # created =>
            (_client = None /\ _client' # None /\ created' = created + 1)]_vars

C13_Witness ==
    /\ batch_pc = "gathering"
    /\ Len(tasks) = 2
    /\ \A i \in DOMAIN tasks : tasks[i].pc = "attempt" /\ tasks[i].handle = 1
    /\ created = 1

\* C14: when the async-with block is left, by return or by an error of its
\* body, the handle has been closed and the client holds none; close() on a
\* client that holds no handle changes nothing.
C14_ScopeExitCloses ==
    /\ [][(scope = "inside" /\ scope' = "outside")
            => (_client' = None /\ aclosed' = created')]_vars
    /\ [][(Len(closes') > Len(closes) /\ _client = None /\ close_pc = "idle")
            => UNCHANGED <<_client, aclosed, created, request_state>>]_vars
    /\ [](created = aclosed + (IF _client = None THEN 0 ELSE 1))

C14_Witness ==
    /\ scope = "outside"
    /\ closes = <<CloseRecord("error", "aclose"), CloseRecord("close", "nothing")>>
    /\ op_result.tag = "raise"
    /\ _client = None
    /\ aclosed = 1

Delivered == delivery.pc = "done" /\ delivery.result # Raise(PydanticValidationError)

\* C15: handle_webhook on a well-formed payload invokes every registered
\* handler once, in registration order, an asynchronous one being awaited
\* before the next is invoked; a handler's error stops nothing, and
\* handle_webhook completes without an error.
C15_EveryHandlerInvoked ==
    /\ Delivered => (delivery.calls = _event_handlers
                       /\ delivery.result = Return(None))
    /\ delivery.pc = "await" =>
          /\ delivery.calls = SubSeq(_event_handlers, 1, delivery.i)
          /\ _event_handlers[delivery.i] \in AsyncHandlers

C15_Witness ==
    /\ Delivered
    /\ _event_handlers = <<"sync_raise", "async_raise", "sync_ok">>
    /\ delivery.calls = _event_handlers

\* C16 as stated: adding a registered handler leaves the list as it was, and
\* removing an unregistered one leaves it unchanged and raises nothing.
C16_AddRemoveIdempotent ==
    /\ (last_op.op = "add" /\ last_op.handler \in Range(last_op.before))
          => _event_handlers = last_op.before
    /\ (last_op.op = "remove" /\ last_op.handler \notin Range(last_op.before))
          => (_event_handlers = last_op.before /\ last_op.raised = None)

\* C16 amended: add_event_handler appends the handler also when it is
\* already registered, and it is then invoked once per registration;
\* remove_event_handler removes the first registration of the handler, and
\* for an unregistered handler raises ValueError, the list unchanged.
C16_AppendAndRemoveFirst ==
    /\ last_op.op = "add" =>
          _event_handlers = last_op.before \o <<last_op.handler>>
    /\ (last_op.op = "add" /\ Delivered) =>
          delivery.calls = last_op.before \o <<last_op.handler>>
    /\ (last_op.op = "remove" /\ last_op.handler \notin Range(last_op.before))
          => (_event_handlers = last_op.before /\ last_op.raised = "ValueError")
    /\ (last_op.op = "remove" /\ last_op.handler \in Range(last_op.before))
          => /\ last_op.raised = None
             /\ Len(_event_handlers) = Len(last_op.before) - 1
             /\ \E k \in DOMAIN last_op.before :
                   /\ last_op.before[k] = last_op.handler
                   /\ last_op.handler \notin Range(SubSeq(last_op.before, 1, k - 1))
                   /\ _event_handlers = SubSeq(last_op.before, 1, k - 1)
                         \o SubSeq(last_op.before, k + 1, Len(last_op.before))

C16_Witness ==
    /\ last_op.op = "add"
    /\ last_op.handler = "sync_ok"
    /\ last_op.before = <<"sync_ok", "async_ok">>
    /\ Delivered
    /\ delivery.calls = <<"sync_ok", "async_ok", "sync_ok">>

SignatureGiven == signature_call[1].signature
ExpectedDigest == hexdigest(signature_call[1].secret, signature_call[1].payload)

\* C17: verify_webhook_signature returns true exactly when the signature
\* equals the hex digest of the payload under the secret, and returns false,
\* never raising, for every other signature string.
C17_SignatureIff ==
    signature_result # NoResult =>
        signature_result = Return(SignatureGiven = ExpectedDigest)

\* C19: PaymentConfig is rejected when the credential is empty, the timeout
\* is <= 0 or max_retries is < 0, and no client then exists; an accepted
\* configuration has a non-empty credential, timeout > 0 and
\* max_retries >= 0 and no client operation changes it.
C19_ConfigValidThroughout ==
    /\ [](construction = "rejected" <=>
            /\ construction # "pending"
            /\ \/ config_args.api_key \in {None, ""}
               \/ config_args.timeout <= 0
               \/ config_args.max_retries < 0)
    /\ [](construction = "rejected" =>
            (pc = "idle" /\ _client = None /\ scope = "outside"))
    /\ [](construction = "accepted" =>
            /\ api_key \notin {None, ""}
            /\ config_timeout > 0
            /\ max_retries >= 0
            /\ PaymentConfigArgs(api_key, config_timeout, max_retries) = config_args)
    /\ [][construction = "accepted" =>
            UNCHANGED <<api_key, config_timeout, max_retries,
                        construction>>]_vars

C19_Witness ==
    /\ construction = "accepted"
    /\ max_retries = 1
    /\ attempts = <<"timeout", "timeout">>
    /\ pc = "done"
    /\ closes # <<>>

OptionalSent(value, param) ==
    IF value = None THEN param = ABSENT ELSE param # ABSENT

DateSent(value, param) ==
    IF value = None THEN param = ABSENT ELSE param = isoformat(value)

\* C20 as stated: without a query exactly limit=20 and offset=0 are sent, as
\* for a default TransactionQuery(); with a query, limit and offset are
\* always sent and each optional filter is sent exactly when it is present.
C20_FilterSentIffPresent ==
    sent_params # NoResult =>
        LET p == sent_params.value
        IN  IF query = <<>>
            THEN /\ p = Params(20, 0, ABSENT, ABSENT, ABSENT, ABSENT, ABSENT)
                 /\ p = to_api_params(TransactionQuery(None, None, None, None,
                                                      None, 20, 0))
            ELSE LET q == query[1]
                 IN  /\ p.limit = q.limit
                     /\ p.offset = q.offset
                     /\ OptionalSent(q.transaction_id, p.transactionId)
                     /\ OptionalSent(q.reference, p.reference)
                     /\ OptionalSent(q.start_date, p.startDate)
                     /\ OptionalSent(q.end_date, p.endDate)
                     /\ OptionalSent(q.status, p.status)

NonEmptySent(value, param) ==
    IF value \in {None, ""} THEN param = ABSENT ELSE param = value

\* C20 amended: as stated, except that a transaction_id or reference filter
\* is sent exactly when it is present and not the empty string.
C20_FilterSentIffNonEmpty ==
    sent_params # NoResult =>
        LET p == sent_params.value
        IN  IF query = <<>>
            THEN /\ p = Params(20, 0, ABSENT, ABSENT, ABSENT, ABSENT, ABSENT)
                 /\ p = to_api_params(TransactionQuery(None, None, None, None,
                                                      None, 20, 0))
            ELSE LET q == query[1]
                 IN  /\ p.limit = q.limit
                     /\ p.offset = q.offset
                     /\ NonEmptySent(q.transaction_id, p.transactionId)
                     /\ NonEmptySent(q.reference, p.reference)
                     /\ DateSent(q.start_date, p.startDate)
                     /\ DateSent(q.end_date, p.endDate)
                     /\ NonEmptySent(q.status, p.status)

C20_Witness ==
    /\ query = <<TransactionQuery("tx1", "", None, "day2", FAILED, 1, 0)>>
    /\ sent_params = Return(Params(1, 0, "tx1", ABSENT, ABSENT,
                                   "2024-01-02T00:00:00", FAILED))
    /\ pc = "done"

(* ------------------ _request: one handle, one set of arguments ---------- *)

\* C29: within one _request call the handle is obtained once, before the
\* first attempt, and every attempt sends the same method, path, body and
\* query parameters over that handle; no step of the call changes the
\* client's configuration or its handler list
C29_OneHandleSameRequest ==
    [][ /\ \A i \in 1..Len(sent') : sent'[i] = sent'[1]
        /\ pc # "idle" =>
             /\ created' = created /\ _client' = _client
             /\ Len(sent') \in {Len(sent), Len(sent) + 1}
        /\ pc' = "attempt" => Len(sent') = attempt' + 1
        /\ max_retries' = max_retries
        /\ config' = config
        /\ _event_handlers' = _event_handlers ]_vars

C29_Witness ==
    /\ pc = "done"
    /\ query # <<>>
    /\ Len(sent) = 2
    /\ sent[2] = [handle |-> 1, args |-> Request("GET", "/payments", <<>>,
                                                 <<to_api_params(query[1])>>)]
    /\ Len(attempts) = 2

(* ------------------ the end of the attempt loop ------------------------- *)

\* the attempt that just ended recorded a failure in last_error
Recorded(o) == o # NoOutcome /\ except_clauses(try_body(o)).tag = "record"

\* C30: with max_retries >= 0, whenever the attempt loop of _request ends
\* without returning or raising, a failure was recorded for the last attempt
\* (last_error is set), so the error raised is never the generic
\* "Request failed after retries"
C30_LoopEndsWithRecordedFailure ==
    /\ max_retries >= 0
    /\ (pc \in {"done", "poll_sleep"} /\ Recorded(last_outcome))
         => /\ last_error # NoError
            /\ Len(attempts) = max_retries + 1
            /\ op \in Propagating => op_result = Raise(last_error)
    /\ op_result.tag = "raise"
         => op_result.value.message # "Request failed after retries"

C30_Witness ==
    /\ pc = "done"
    /\ op = "health_check"
    /\ max_retries = 0
    /\ Recorded(last_outcome)
    /\ op_result.tag = "raise"
    /\ op_result.value.message = "Request timed out"

(* ------------------ a failed fetch inside the poll ---------------------- *)

\* C28: when a fetch of poll_transaction_status fails (its _request call
\* gives up or raises, or the body is no transaction), the poll ends at once
\* with that failure: no callback invocation for the fetch, no further fetch
\* or sleep, and the result is neither the polling timeout nor a returned
\* transaction
C28_FailedFetchEndsPoll ==
    /\ [][(/\ Polling /\ pc = "attempt" /\ pc' # "backoff"
           /\ Len(attempts') = Len(attempts) + 1
           /\ FetchedStatus(last_outcome') = ABSENT)
            => /\ pc' = "done"
               /\ op_result'.tag = "raise"
               /\ op_result'.value.message # "Polling timed out"
               /\ Recorded(last_outcome') => op_result' = Raise(last_error')
               /\ UNCHANGED <<callback_calls, callback_arg, fetches, sleeps,
                              now, sent>>]_vars
    /\ [][(Polling /\ pc = "done")
            => UNCHANGED <<pc, op_result, fetches, callback_calls, sleeps,
                           sent, now>>]_vars

C28_Witness ==
    /\ Polling
    /\ pc = "done"
    /\ callback
    /\ fetches = 1
    /\ callback_calls = 1
    /\ callback_arg = PENDING
    /\ timeout > 0
    /\ Recorded(last_outcome)
    /\ Len(attempts) = 2
    /\ op_result = Raise(last_error)

(* ------------------ PaymentResponse status predicates ------------------- *)

\* what the three derived predicates must say of a response with status s
ExactlyItsStatus(t) ==
    /\ is_success(t) <=> t.status = SUCCESS
    /\ is_pending(t) <=> t.status = PENDING
    /\ is_failed(t) <=> t.status = FAILED
    /\ Cardinality({b \in {"s", "p", "f"} :
                      \/ b = "s" /\ is_success(t)
                      \/ b = "p" /\ is_pending(t)
                      \/ b = "f" /\ is_failed(t)}) <= 1
    /\ t.status = CANCELLED => ~is_success(t) /\ ~is_pending(t) /\ ~is_failed(t)

\* C23: for every PaymentResponse, is_success, is_pending and is_failed are
\* true exactly for the statuses success, pending and failed; at most one
\* of them is true, and none is for a cancelled transaction
C23_StatusPredicates ==
    /\ \A s \in PaymentStatus : ExactlyItsStatus(PaymentResponse(s))
    /\ (op \in {"get_transaction", "poll_transaction_status"}
          /\ op_result.tag = "return") => ExactlyItsStatus(op_result.value)

C23_Witness ==
    /\ op = "get_transaction"
    /\ pc = "done"
    /\ op_result = Return(PaymentResponse(CANCELLED))
    /\ ~is_failed(op_result.value)

(* ------------------ what execute leaves behind -------------------------- *)

\* C27: execute leaves the batch's list of added operations unchanged, so a
\* second execute on the same batch starts one sub-operation for every
\* payment added so far, again; add_payment and leaving the batch scope
\* start no sub-operation and send nothing
C27_ExecuteKeepsOperations ==
    /\ [][executions' = executions + 1
            => /\ _operations' = _operations
               /\ tasks' = [i \in DOMAIN _operations |->
                               NewTask(_operations[i][2])]]_vars
    /\ [][(\/ Len(_operations') = Len(_operations) + 1
           \/ batch_pc # "none" /\ batch_pc' = "none")
            => UNCHANGED <<tasks, _client, created, sent, executions>>]_vars
    /\ [](executions = 0 => tasks = <<>>)

C27_Witness ==
    /\ executions = 2
    /\ batch_pc = "done"
    /\ _operations = <<(<<"payment", "r1">>), (<<"payment", "r2">>)>>
    /\ \A i \in DOMAIN tasks : tasks[i].attempt = 1
    /\ Len(batch_result.value) = 2

(* ------------------ attempts and a handle being closed ------------------ *)

\* C26: no attempt is issued over a handle after close() has begun shutting
\* it down: an operation that starts, or leaves its backoff sleep, while
\* close() is in progress or after it uses a handle that is still open
C26_NoAttemptOverClosingHandle ==
    [][(pc # "attempt" /\ pc' = "attempt")
         => LET h == sent'[Len(sent')].handle
            IN  ~(h <= aclosed' \/ (close_pc' # "idle" /\ h = created'))]_vars

(* ------------------ the refund payload ---------------------------------- *)

\* the json argument of the attempts of the running refund
RefundPayload == sent[Len(sent)].args.json[1]

\* C21: the payload refund(request) sends has an amount exactly when the
\* RefundRequest has one, which is then > 0: no amount key for a request
\* without amount (full refund), the request's amount as a float for a
\* request with one (partial refund); the transaction id is always there
C21_RefundAmountIffGiven ==
    (op = "refund" /\ pc # "idle") =>
        LET r == refund_request.value
        IN  /\ sent[Len(sent)].args.method = "POST"
            /\ sent[Len(sent)].args.path = "/refunds"
            /\ RefundPayload.transactionId = r.transaction_id
            /\ (RefundPayload.amount # <<>>) <=> (r.amount # <<>>)
            /\ r.amount # <<>> =>
                 /\ r.amount[1].units > 0 \/ r.amount[1].tail > 0
                 /\ RefundPayload.amount = <<r.amount[1].units>>

C21_Witness ==
    /\ op = "refund"
    /\ pc = "done"
    /\ refund_request.value.amount = <<Decimal(MaxAmount, 1)>>
    /\ RefundPayload = [transactionId |-> "tx1", amount |-> <<MaxAmount>>,
                        reason |-> <<>>]
    /\ op_result = Return(PaymentResponse(SUCCESS))

(* ------------------ the phone number ------------------------------------ *)

RECURSIVE DigitsOf(_)
\* the digit characters of a string, in their order
DigitsOf(v) ==
    IF v = <<>> THEN <<>>
    ELSE (IF isdigit(Head(v)) THEN <<Head(v)>> ELSE <<>>) \o DigitsOf(Tail(v))

\* C22: PaymentRequest construction stores exactly the digit characters of
\* the phone string, in their order, when there are 9 to 15 of them, and
\* fails with a validation failure otherwise; so a stored phone number is 9
\* to 15 digits, and normalizing it again leaves it unchanged
C22_PhoneNormalized ==
    payment_request # NoResult =>
        LET digits == DigitsOf(phone_number)
        IN  /\ IF Len(digits) \in 9..15
               THEN payment_request = Return(digits)
               ELSE payment_request = Raise(PydanticValidationError)
            /\ payment_request.tag = "return" =>
                 LET stored == payment_request.value
                 IN  /\ Len(stored) \in 9..15
                     /\ \A i \in DOMAIN stored : isdigit(stored[i])
                     /\ validate_phone_number(stored) = Return(stored)

C22_Witness ==
    /\ phone_number = Repeat("7", 8) \o Repeat("-", 1) \o Repeat("2", 7)
    /\ payment_request = Return(Repeat("7", 8) \o Repeat("2", 7))

(* ------------------ payment_required ------------------------------------ *)

\* the transaction id a request supplies to the decorator of an endpoint:
\* query string, then form, then (Flask) the JSON object's transaction_id
SuppliedId(r, endpoint) ==
    IF truthy(r.args_id) THEN r.args_id
    ELSE IF truthy(r.form_id) THEN r.form_id
    ELSE IF endpoint = "flask_view" /\ r.body = "p1" THEN "tx1"
    ELSE None

\* the transaction of the request has status success, in the local store
\* (Django) or as fetched through the client
PaidFor(r, endpoint) ==
    IF endpoint = "django_view" /\ r.store # "missing"
    THEN r.store = SUCCESS
    ELSE r.fetch.tag = "return" /\ r.fetch.value.status = SUCCESS

\* C24: a view wrapped by payment_required runs only for a request that
\* supplied a transaction id whose transaction has status success; with no
\* transaction id, another status or a failed fetch the response is 403
\* and the view is not called (a store that cannot be read is left aside)
C24_ViewOnlyAfterPayment ==
    (web_response # <<>>
       /\ web_response[1].endpoint \in {"django_view", "flask_view"}
       /\ web_request[1].store # "db_error") =>
        LET r == web_request[1]
            w == web_response[1]
            paid == /\ SuppliedId(r, w.endpoint) # None
                    /\ PaidFor(r, w.endpoint)
        IN  /\ w.view_called => paid
            /\ ~paid => (w.status = 403 /\ ~w.view_called)

(* ------------------ the webhook endpoints ------------------------------- *)

\* the signature header is the digest of the body under the configured secret
Verified(r) ==
    r.secret # <<>> /\ r.signature = hexdigest(r.secret[1], r.body)

\* C25: in both webhook endpoints handlers are called, and in the Django
\* endpoint the stored transaction is updated, only for a payload whose
\* signature header verified against the configured webhook secret
C25_OnlyVerifiedPayloadsActed ==
    (web_response # <<>>
       /\ web_response[1].endpoint \in {"django_webhook", "flask_webhook"}) =>
        LET r == web_request[1]
            w == web_response[1]
        IN  (w.dispatched \/ w.store # r.store) => Verified(r)

====
